---- MODULE Spec2Model ----
(***************************************************************************)
(* Model of twilight-bucket (src/src/lib.rs): a Bucket holds a Limit and a *)
(* DashMap from non-zero ids to Usage {time, count}.  register and         *)
(* limit_duration are called by concurrent callers; every step between two *)
(* lock operations or clock reads is one action.                           *)
(***************************************************************************)
EXTENDS Integers, Sequences, FiniteSets, TLC

\* ---------------------------------------------------------------- bounds
MaxTime == 3          \* the clock runs from 0 to MaxTime
MaxDuration == 2      \* Limit.duration is drawn from 0..MaxDuration
MaxLimitCount == 2    \* Limit.count is drawn from 0..MaxLimitCount
MaxRegs == 3          \* at most MaxRegs register calls in all

Threads == {1, 2}
Ids == {1, 2}
NoThread == 0
ZeroId == 0

\* u16::MAX, the largest value of Usage.count and Limit.count
U16Max == 65535

\* Option<Duration>
None == << >>
Some(d) == << d >>

VARIABLES
    limit,      \* Bucket.limit: [duration, count]
    usages,     \* Bucket.usages: function from the ids present to Usage
    now,        \* the monotonic clock read by Instant::now()
    shard,      \* the DashMap shard each id hashes to
    wlock,      \* per shard: the caller holding the write lock (a RefMut or an insert)
    rlock,      \* per shard: the callers holding a read lock (a Ref)
    callers,    \* the callers sharing the Bucket
    keeps,      \* whether the callers keep what limit_duration returns
    protocol,   \* whether the callers register only after limit_duration returned None
    pc,         \* per caller: position inside register / limit_duration
    arg,        \* per caller: the id of the call in progress
    tnow,       \* per caller: the value of the last Instant::now() of the call
    ret,        \* per caller: what its last limit_duration returned at this instant
    regs,       \* history: per id, the timestamps register stored, in order
    started,    \* history: the number of register calls begun
    initial,    \* history: the table the callers found before their first call
    asked       \* history: what the latest limit_duration returned, and when

vars == << limit, usages, now, shard, wlock, rlock, callers, keeps, protocol, pc, arg, tnow, ret,
           regs, started, initial, asked >>

Shards == {1, 2}

\* Instant - Instant saturates at zero
Elapsed(n, t) == IF n >= t THEN n - t ELSE 0

\* ret[t]: the id asked about, the result, the count the call saw (0: absent),
\* whether the caller has registered that id since
NoVerdict == [id |-> ZeroId, res |-> None, seen |-> 0, used |-> TRUE]
Verdict(id, res, seen) == [id |-> id, res |-> res, seen |-> seen, used |-> FALSE]

Returned(id, res, seen) == IF keeps THEN Verdict(id, res, seen) ELSE NoVerdict

\* asked: whether the history of answers is kept at all; the id of the latest
\* limit_duration that returned, its result and the instant of its clock read
\* (id = ZeroId: none since the last register that wrote that id's entry);
\* was: what the call before it returned, when that was a call on the same id
\* at an earlier instant with no register writing that id's entry in between
AskOff == [on |-> FALSE, id |-> ZeroId, res |-> None, at |-> 0, was |-> << >>]
NoAsk == [on |-> TRUE, id |-> ZeroId, res |-> None, at |-> 0, was |-> << >>]
Answered(id, res) ==
    IF asked.on
    THEN [on |-> TRUE, id |-> id, res |-> res, at |-> now,
          was |-> IF asked.id # id THEN << >>
                  ELSE IF asked.at < now THEN << asked.res >> ELSE asked.was]
    ELSE asked

\* variant: a new Usage that starts counting at 0
UsageNewZero(n) == [time |-> n, count |-> 0]

\* Usage::new() evaluated when the clock shows n
UsageNew(n) == [time |-> n, count |-> 1]

\* variant: the count stops at limit.count instead of passing it
RegisterCountCapped(u, n) ==
    IF Elapsed(n, u.time) > limit.duration THEN 1
    ELSE IF u.count < limit.count THEN u.count + 1 ELSE u.count

\* the `if` of register: the count stored for a present entry u at time n
\* (u16 arithmetic; a build without overflow checks wraps)
RegisterCount(u, n) ==
    IF Elapsed(n, u.time) > limit.duration THEN 1 ELSE (u.count + 1) % (U16Max + 1)

\* whether usage.count + 1 overflows the u16 for entry u at time n
Overflows(u, n) == Elapsed(n, u.time) <= limit.duration /\ u.count = U16Max

\* variant: limited only once the count has passed limit.count
LimitDurationOfGt(u, n) ==
    IF u.count > limit.count /\ limit.duration > Elapsed(n, u.time)
    THEN Some(limit.duration - Elapsed(n, u.time))
    ELSE None

\* variant: still limited when exactly limit.duration has elapsed
LimitDurationOfGe(u, n) ==
    IF u.count >= limit.count /\ limit.duration >= Elapsed(n, u.time)
    THEN Some(limit.duration - Elapsed(n, u.time))
    ELSE None

\* variant: a limited id is told to wait the whole duration
LimitDurationOfWhole(u, n) ==
    IF u.count >= limit.count /\ limit.duration > Elapsed(n, u.time)
    THEN Some(limit.duration)
    ELSE None

\* the decision of limit_duration on a present entry u at time n
LimitDurationOf(u, n) ==
    IF u.count >= limit.count /\ limit.duration > Elapsed(n, u.time)
    THEN Some(limit.duration - Elapsed(n, u.time))
    ELSE None

\* variant: the insert replaces the whole map
InsertFresh(m, k, v) == [j \in {k} |-> v]

\* DashMap::insert
Insert(m, k, v) == [j \in (DOMAIN m) \cup {k} |-> IF j = k THEN v ELSE m[j]]

Free(s) == wlock[s] = NoThread /\ rlock[s] = {}

\* the counts an entry that is present from the start may hold: a single use,
\* and the last two values of the u16
StartCounts == {1, U16Max - 1, U16Max}

\* a Bucket that has been in use: id 1 was registered up to count c, last at
\* the instant the model starts; id 2 never was
UsedTables == {[i \in {1} |-> [time |-> 0, count |-> c]] : c \in StartCounts}

\* a Bucket shared by the callers cs, holding one of the tables
InitFrom(cs, k, p, tables, track) ==
    /\ limit \in [duration : 0..MaxDuration, count : 0..MaxLimitCount]
    /\ usages \in tables
    /\ initial = usages
    /\ asked = IF track THEN NoAsk ELSE AskOff
    /\ now = 0
    /\ shard \in {f \in [Ids -> Shards] : f[1] = 1}
    /\ wlock = [s \in Shards |-> NoThread]
    /\ rlock = [s \in Shards |-> {}]
    /\ callers = cs
    /\ keeps = k
    /\ protocol = p
    /\ pc = [t \in Threads |-> "idle"]
    /\ arg = [t \in Threads |-> ZeroId]
    /\ tnow = [t \in Threads |-> 0]
    /\ ret = [t \in Threads |-> NoVerdict]
    /\ regs = [i \in Ids |-> << >>]
    /\ started = 0

\* Bucket::new: the table starts empty
InitWith(cs, k, p) ==
    /\ limit \in [duration : 0..MaxDuration, count : 0..MaxLimitCount]
    /\ usages = << >>
    /\ initial = usages
    /\ asked = AskOff
    /\ now = 0
    /\ shard \in {f \in [Ids -> Shards] : f[1] = 1}
    /\ wlock = [s \in Shards |-> NoThread]
    /\ rlock = [s \in Shards |-> {}]
    /\ callers = cs
    /\ keeps = k
    /\ protocol = p
    /\ pc = [t \in Threads |-> "idle"]
    /\ arg = [t \in Threads |-> ZeroId]
    /\ tnow = [t \in Threads |-> 0]
    /\ ret = [t \in Threads |-> NoVerdict]
    /\ regs = [i \in Ids |-> << >>]
    /\ started = 0

\* concurrent callers that call freely and drop the results
Init == InitWith(Threads, FALSE, FALSE)

\* a single caller that calls freely
InitSeq == InitWith({1}, TRUE, FALSE)

\* a single caller that follows the documented protocol
InitProtocol == InitWith({1}, TRUE, TRUE)

\* concurrent callers that follow the documented protocol
InitProtocol2 == InitWith(Threads, TRUE, TRUE)

\* concurrent callers that call freely; the history of answers is kept
InitAsk == InitFrom(Threads, FALSE, FALSE, {<< >>}, TRUE)

\* a single caller that calls freely; the history of answers is kept
InitSeqAsk == InitFrom({1}, FALSE, FALSE, {<< >>}, TRUE)

\* concurrent callers that call freely on a Bucket that has been in use
InitUsed == InitFrom(Threads, FALSE, FALSE, UsedTables, FALSE)

\* a single caller that calls freely on a Bucket that has been in use
InitSeqUsed == InitFrom({1}, TRUE, FALSE, UsedTables, FALSE)

\* whether some Instant::now() has been taken: an Instant has no meaning but
\* its distance to another, so the clock starts with the first one
ClockRead == DOMAIN usages # {} \/ \E t \in Threads : pc[t] = "r_insert"

Tick ==
    /\ now < MaxTime
    /\ ClockRead
    /\ now' = now + 1
    /\ ret' = [t \in Threads |-> NoVerdict]
    /\ UNCHANGED << limit, initial, asked, usages, shard, wlock, rlock, callers, keeps, protocol, pc, arg, tnow,
                    regs, started >>

\* variant: the 0 is taken as an id like any other and gets an entry
PanicZeroCoerced(t) ==
    /\ t \in callers /\ pc[t] = "idle"
    /\ usages' = Insert(usages, ZeroId, UsageNew(now))
    /\ UNCHANGED << limit, initial, asked, now, shard, wlock, rlock, callers, keeps, protocol, pc,
                    arg, tnow, ret, regs, started >>

\* register(0) and limit_duration(0): id.try_into().unwrap() panics and the
\* caller unwinds
PanicZero(t) ==
    /\ t \in callers /\ pc[t] = "idle"
    /\ pc' = [pc EXCEPT ![t] = "panicked"]
    /\ arg' = [arg EXCEPT ![t] = ZeroId]
    /\ ret' = [ret EXCEPT ![t] = NoVerdict]
    /\ UNCHANGED << limit, initial, asked, usages, now, shard, wlock, rlock, callers, keeps, protocol, tnow,
                    regs, started >>

\* whether the register of caller t on id directly follows a limit_duration(id)
\* of t that returned None at the same instant
Disciplined(t, id) ==
    /\ ret[t].id = id /\ ret[t].res = None /\ ~ret[t].used

\* variant: the guard of the lookup is still held in the None arm
RegisterGetMutGuarded(t, id) ==
    /\ t \in callers /\ pc[t] = "idle"
    /\ protocol => Disciplined(t, id)
    /\ started < MaxRegs
    /\ Free(shard[id])
    /\ started' = started + 1
    /\ arg' = [arg EXCEPT ![t] = id]
    /\ wlock' = [wlock EXCEPT ![shard[id]] = t]
    /\ pc' = [pc EXCEPT ![t] = IF id \in DOMAIN usages THEN "r_some" ELSE "r_none"]
    /\ UNCHANGED << limit, initial, asked, usages, now, shard, rlock, callers, keeps, protocol, tnow, ret, regs >>

\* register: self.usages.get_mut(&id_non_zero)
RegisterGetMut(t, id) ==
    /\ t \in callers /\ pc[t] = "idle"
    /\ protocol => Disciplined(t, id)
    /\ started < MaxRegs
    /\ Free(shard[id])
    /\ started' = started + 1
    /\ arg' = [arg EXCEPT ![t] = id]
    /\ IF id \in DOMAIN usages
       THEN /\ pc' = [pc EXCEPT ![t] = "r_some"]
            /\ wlock' = [wlock EXCEPT ![shard[id]] = t]
       ELSE /\ pc' = [pc EXCEPT ![t] = "r_none"]
            /\ UNCHANGED wlock
    /\ UNCHANGED << limit, initial, asked, usages, now, shard, rlock, callers, keeps, protocol, tnow, ret, regs >>

Account(t, id, n) ==
    /\ regs' = [regs EXCEPT ![id] = Append(@, n)]
    /\ ret' = IF ret[t].id = id THEN [ret EXCEPT ![t].used = TRUE] ELSE ret
    /\ asked' = IF asked.on /\ asked.id = id THEN NoAsk ELSE asked

\* register, Some arm: let now = Instant::now(); usage.count = if ... ;
\* on overflow a build with overflow checks panics: the RefMut is dropped by
\* the unwinding and the entry keeps its fields
RegisterUpdate(t) ==
    /\ pc[t] = "r_some"
    /\ protocol => Disciplined(t, arg[t])
    /\ \E checked \in IF Overflows(usages[arg[t]], now) THEN BOOLEAN ELSE {FALSE} :
         IF checked
         THEN /\ pc' = [pc EXCEPT ![t] = "panicked"]
              /\ arg' = [arg EXCEPT ![t] = ZeroId]
              /\ ret' = [ret EXCEPT ![t] = NoVerdict]
              /\ wlock' = [wlock EXCEPT ![shard[arg[t]]] = NoThread]
              /\ UNCHANGED << usages, tnow, regs, asked >>
         ELSE /\ tnow' = [tnow EXCEPT ![t] = now]
              /\ usages' = [usages EXCEPT
                              ![arg[t]].count = RegisterCount(usages[arg[t]], now)]
              /\ Account(t, arg[t], now)
              /\ pc' = [pc EXCEPT ![t] = "r_time"]
              /\ UNCHANGED << wlock, arg >>
    /\ UNCHANGED << limit, initial, now, shard, rlock, callers, keeps, protocol, started >>

\* register, Some arm: usage.time = now; the RefMut is dropped
RegisterSetTime(t) ==
    /\ pc[t] = "r_time"
    /\ usages' = [usages EXCEPT ![arg[t]].time = tnow[t]]
    /\ wlock' = [wlock EXCEPT ![shard[arg[t]]] = NoThread]
    /\ pc' = [pc EXCEPT ![t] = "idle"]
    /\ arg' = [arg EXCEPT ![t] = ZeroId]
    /\ tnow' = [tnow EXCEPT ![t] = 0]
    /\ UNCHANGED << limit, initial, asked, now, shard, rlock, callers, keeps, protocol, ret, regs, started >>

\* register, None arm: the argument Usage::new() is evaluated before insert runs
RegisterUsageNew(t) ==
    /\ pc[t] = "r_none"
    /\ protocol => Disciplined(t, arg[t])
    /\ tnow' = [tnow EXCEPT ![t] = now]
    /\ pc' = [pc EXCEPT ![t] = "r_insert"]
    /\ UNCHANGED << limit, initial, asked, usages, now, shard, wlock, rlock, callers, keeps, protocol, arg, ret, regs, started >>

\* register, None arm: self.usages.insert(id_non_zero, usage)
RegisterInsert(t) ==
    /\ pc[t] = "r_insert"
    /\ Free(shard[arg[t]])
    /\ usages' = Insert(usages, arg[t], UsageNew(tnow[t]))
    /\ Account(t, arg[t], tnow[t])
    /\ pc' = [pc EXCEPT ![t] = "idle"]
    /\ arg' = [arg EXCEPT ![t] = ZeroId]
    /\ tnow' = [tnow EXCEPT ![t] = 0]
    /\ UNCHANGED << limit, initial, now, shard, wlock, rlock, callers, keeps, protocol, started >>

\* variant: a vacant entry is read as a default Usage instead of returning None
LimitDurationGetDefault(t, id) ==
    /\ t \in callers /\ pc[t] = "idle"
    /\ wlock[shard[id]] = NoThread
    /\ IF id \in DOMAIN usages
       THEN /\ pc' = [pc EXCEPT ![t] = "l_ref"]
            /\ arg' = [arg EXCEPT ![t] = id]
            /\ rlock' = [rlock EXCEPT ![shard[id]] = @ \cup {t}]
            /\ UNCHANGED << ret, asked >>
       ELSE /\ ret' = [ret EXCEPT ![t] =
                         Returned(id, LimitDurationOf([time |-> 0, count |-> 0], now), 0)]
            /\ asked' = Answered(id, LimitDurationOf([time |-> 0, count |-> 0], now))
            /\ UNCHANGED << pc, arg, rlock >>
    /\ UNCHANGED << limit, initial, usages, now, shard, wlock, callers, keeps, protocol, tnow, regs, started >>

\* variant: the lookup does not wait for a writer of the shard
LimitDurationGetUnlocked(t, id) ==
    /\ t \in callers /\ pc[t] = "idle"
    /\ IF id \in DOMAIN usages
       THEN /\ pc' = [pc EXCEPT ![t] = "l_ref"]
            /\ arg' = [arg EXCEPT ![t] = id]
            /\ rlock' = [rlock EXCEPT ![shard[id]] = @ \cup {t}]
            /\ UNCHANGED << ret, asked >>
       ELSE /\ ret' = [ret EXCEPT ![t] = Returned(id, None, 0)]
            /\ asked' = Answered(id, None)
            /\ UNCHANGED << pc, arg, rlock >>
    /\ UNCHANGED << limit, initial, usages, now, shard, wlock, callers, keeps, protocol, tnow, regs, started >>

\* limit_duration: self.usages.get(&id)?
LimitDurationGet(t, id) ==
    /\ t \in callers /\ pc[t] = "idle"
    /\ wlock[shard[id]] = NoThread
    /\ IF id \in DOMAIN usages
       THEN /\ pc' = [pc EXCEPT ![t] = "l_ref"]
            /\ arg' = [arg EXCEPT ![t] = id]
            /\ rlock' = [rlock EXCEPT ![shard[id]] = @ \cup {t}]
            /\ UNCHANGED << ret, asked >>
       ELSE /\ ret' = [ret EXCEPT ![t] = Returned(id, None, 0)]
            /\ asked' = Answered(id, None)
            /\ UNCHANGED << pc, arg, rlock >>
    /\ UNCHANGED << limit, initial, usages, now, shard, wlock, callers, keeps, protocol, tnow, regs, started >>

\* variant: the query also stamps the entry with the time of the query
LimitDurationDecideTouch(t) ==
    /\ pc[t] = "l_ref"
    /\ ret' = [ret EXCEPT ![t] = Returned(arg[t], LimitDurationOf(usages[arg[t]], now),
                                           usages[arg[t]].count)]
    /\ asked' = Answered(arg[t], LimitDurationOf(usages[arg[t]], now))
    /\ usages' = [usages EXCEPT ![arg[t]].time = now]
    /\ rlock' = [rlock EXCEPT ![shard[arg[t]]] = @ \ {t}]
    /\ pc' = [pc EXCEPT ![t] = "idle"]
    /\ arg' = [arg EXCEPT ![t] = ZeroId]
    /\ UNCHANGED << limit, initial, now, shard, wlock, callers, keeps, protocol, tnow, regs, started >>

\* limit_duration: elapsed = Instant::now() - usage.time; the decision; the Ref is dropped
LimitDurationDecide(t) ==
    /\ pc[t] = "l_ref"
    /\ ret' = [ret EXCEPT ![t] = Returned(arg[t], LimitDurationOf(usages[arg[t]], now),
                                           usages[arg[t]].count)]
    /\ asked' = Answered(arg[t], LimitDurationOf(usages[arg[t]], now))
    /\ rlock' = [rlock EXCEPT ![shard[arg[t]]] = @ \ {t}]
    /\ pc' = [pc EXCEPT ![t] = "idle"]
    /\ arg' = [arg EXCEPT ![t] = ZeroId]
    /\ UNCHANGED << limit, initial, usages, now, shard, wlock, callers, keeps, protocol, tnow, regs, started >>

Next ==
    \/ Tick
    \/ \E t \in Threads : PanicZero(t)
    \/ \E t \in Threads, id \in Ids : RegisterGetMut(t, id)
    \/ \E t \in Threads : RegisterUpdate(t)
    \/ \E t \in Threads : RegisterSetTime(t)
    \/ \E t \in Threads : RegisterUsageNew(t)
    \/ \E t \in Threads : RegisterInsert(t)
    \/ \E t \in Threads, id \in Ids : LimitDurationGet(t, id)
    \/ \E t \in Threads : LimitDurationDecide(t)

Spec == Init /\ [][Next]_vars

SpecSeq == InitSeq /\ [][Next]_vars

SpecProtocol == InitProtocol /\ [][Next]_vars

SpecProtocol2 == InitProtocol2 /\ [][Next]_vars

\* every caller that can take its next step eventually takes it; a caller
\* waiting for a shard's lock gets it if the lock is free again and again
Fairness ==
    \A t \in Threads :
        /\ WF_vars(RegisterUpdate(t))
        /\ WF_vars(RegisterSetTime(t))
        /\ WF_vars(RegisterUsageNew(t))
        /\ SF_vars(RegisterInsert(t))
        /\ WF_vars(LimitDurationDecide(t))

\* concurrent callers that call freely, under the Limit with the longest
\* duration and the largest count: no guard of a step depends on the Limit
InitFair ==
    /\ InitWith(Threads, FALSE, FALSE)
    /\ limit = [duration |-> MaxDuration, count |-> MaxLimitCount]

SpecFair == InitFair /\ [][Next]_vars /\ Fairness

SpecAsk == InitAsk /\ [][Next]_vars

SpecSeqAsk == InitSeqAsk /\ [][Next]_vars

SpecUsed == InitUsed /\ [][Next]_vars

SpecSeqUsed == InitSeqUsed /\ [][Next]_vars

\* ------------------------------------------------------------ properties

Last(q) == q[Len(q)]

InRegister == {"r_some", "r_time", "r_none", "r_insert"}

\* the registrations of id whose timestamps lie in lo..hi
RegsIn(id, lo, hi) == {k \in 1..Len(regs[id]) : regs[id][k] >= lo /\ regs[id][k] <= hi}

\* every registration of id so far, and the present instant, lie strictly
\* inside one window
InsideOneWindow(id) == \A k \in 1..Len(regs[id]) : now - regs[id][k] < limit.duration

\* C1: a protocol-following caller on a fresh id, all inside one window, with
\* max_count = n >= 1: a limit_duration after fewer than n registrations
\* returns None, and the one after the n-th registration returns
\* Some(window - time since the n-th registration), with 0 < d <= window.
C1_LimitedAfterMaxCount ==
    \A t \in callers, i \in Ids :
        ( /\ ret[t].id = i /\ ~ret[t].used
          /\ limit.count >= 1
          /\ Len(regs[i]) <= limit.count
          /\ InsideOneWindow(i) )
        => IF Len(regs[i]) < limit.count
           THEN ret[t].res = None
           ELSE /\ ret[t].res = Some(limit.duration - (now - Last(regs[i])))
                /\ ret[t].res[1] > 0 /\ ret[t].res[1] <= limit.duration

C1_Witness ==
    \E t \in callers, i \in Ids :
        /\ ret[t].id = i /\ ~ret[t].used
        /\ limit.count = 2 /\ Len(regs[i]) = 2 /\ InsideOneWindow(i)
        /\ ret[t].res = Some(1) /\ limit.duration = 2

\* C2: limit_duration of an id that was never passed to register returns
\* None, whatever the other ids and the Limit are.
C2_UnregisteredNotLimited ==
    \A t \in callers, i \in Ids :
        ( /\ ret[t].id = i
          /\ regs[i] = << >>
          /\ \A u \in Threads : ~(pc[u] \in InRegister /\ arg[u] = i) )
        => ret[t].res = None

C2_Witness ==
    \E t \in callers :
        /\ ret[t].id = 1 /\ regs[1] = << >> /\ ret[t].res = None
        /\ \A u \in Threads : ~(pc[u] \in InRegister /\ arg[u] = 1)
        /\ 2 \in DOMAIN usages /\ usages[2].count >= 2
        /\ limit.count = 0 /\ limit.duration > now - usages[2].time

\* C3: when a protocol-following caller registers an id at an instant at which
\* the full window has elapsed since the last registration, elapsed = window
\* included, the stored count becomes 1 (window and max_count positive).
C3_ResetOnceWindowElapsed ==
    \A t \in callers :
        ( /\ pc[t] = "r_time"
          /\ limit.duration > 0 /\ limit.count > 0
          /\ Elapsed(tnow[t], usages[arg[t]].time) >= limit.duration )
        => usages[arg[t]].count = 1

\* C4: once k <= max_count register calls on one id have all returned, with
\* no window expiry in between, the stored count is k (window positive).
C4_NoLostRegistration ==
    \A i \in Ids :
        ( /\ \A u \in Threads : ~(pc[u] \in InRegister /\ arg[u] = i)
          /\ Len(regs[i]) >= 1 /\ Len(regs[i]) <= limit.count
          /\ limit.duration > 0
          /\ \A k \in 1..Len(regs[i]) : now - regs[i][k] <= limit.duration )
        => i \in DOMAIN usages /\ usages[i].count = Len(regs[i])

\* C5 as claimed: every id present has 1 <= count <= limit.count.
C5_CountWithinLimit ==
    \A i \in DOMAIN usages : usages[i].count >= 1 /\ usages[i].count <= limit.count

\* C5 as amended: every id present has a count of at least 1 and at most the
\* number of register calls that have written its entry.
C5_CountAtLeastOne ==
    \A i \in DOMAIN usages : usages[i].count >= 1 /\ usages[i].count <= Len(regs[i])

C5_Witness ==
    \E i \in DOMAIN usages :
        /\ limit.count >= 1 /\ usages[i].count > limit.count
        /\ \A u \in Threads : pc[u] \notin InRegister

\* a step of limit_duration by caller t
LimitDurationStep(t) ==
    \/ pc[t] = "l_ref"
    \/ pc'[t] = "l_ref"
    \/ pc[t] = "idle" /\ pc'[t] = "idle" /\ now' = now /\ ret'[t] # ret[t]

\* C6: no step of limit_duration changes the table, and a limit_duration on
\* the same id at the same instant with no register in between returns what
\* the previous one returned.
C6_LimitDurationPure ==
    [][ \A t \in callers :
          /\ LimitDurationStep(t) => usages' = usages
          /\ ( /\ ret[t].id # ZeroId /\ ret'[t].id = ret[t].id
               /\ ~ret[t].used /\ ~ret'[t].used )
             => ret'[t].res = ret[t].res ]_vars

C6_Witness ==
    \E t \in callers :
        /\ ret[t].id \in DOMAIN usages /\ ~ret[t].used
        /\ ret[t].res # None /\ ret[t].seen >= 2

\* whether the entry of id j differs between the two states of a step
EntryChanged(j) ==
    \/ (j \in DOMAIN usages) # (j \in DOMAIN usages')
    \/ j \in DOMAIN usages /\ j \in DOMAIN usages' /\ usages'[j] # usages[j]

\* C7: the entry of an id changes only in a step of a register call on that
\* very id; a register on another id leaves it alone, also under interleaving.
C7_RegisterTouchesOwnEntry ==
    [][ \A j \in Ids :
          EntryChanged(j) =>
            \E t \in callers : pc[t] \in InRegister /\ pc'[t] # pc[t] /\ arg[t] = j ]_vars

C7_Witness ==
    /\ pc[1] = "r_time" /\ arg[1] = 1 /\ usages[1].count = 2
    /\ shard[2] # shard[1]
    /\ 2 \in DOMAIN usages /\ regs[2] = << now >> /\ regs[1] = << 0, now >> /\ now > 0

\* C8: the pair limit_duration, register is not atomic: a caller that got None
\* for an id holding max_count - 1, and that finds the count already at
\* max_count when its register runs (another protocol-following caller
\* registered in between, inside the window), still registers, and the stored
\* count becomes max_count + 1.
C8_BothAdmitted ==
    [][ \A u \in callers :
          ( /\ pc[u] = "r_some" /\ pc'[u] = "r_time"
            /\ ret[u].id = arg[u] /\ ret[u].res = None /\ ~ret[u].used
            /\ limit.count >= 2
            /\ ret[u].seen = limit.count - 1
            /\ usages[arg[u]].count = limit.count
            /\ now - usages[arg[u]].time < limit.duration )
          => usages'[arg[u]].count = limit.count + 1 ]_vars

C8_Witness ==
    \E i \in Ids :
        /\ \A t \in Threads :
             /\ pc[t] = "idle" /\ ret[t].id = i /\ ret[t].res = None /\ ret[t].used
             /\ ret[t].seen = limit.count - 1
        /\ limit.count >= 2 /\ limit.duration >= 1
        /\ usages[i].count > limit.count
        /\ Cardinality(RegsIn(i, now, now)) > limit.count

\* the registrations of one id inside any span of length window
WithinTwiceMax ==
    \A i \in Ids, s \in 0..MaxTime :
        Cardinality(RegsIn(i, s, s + limit.duration)) <= 2 * limit.count

\* C9 as claimed: for a protocol-following caller, at most 2 * max_count
\* registrations of one id lie within any span of length window.
C9_AtMostTwiceMaxCount == WithinTwiceMax

\* C9 as amended: the same, for max_count >= 1 and a window of positive length.
C9_AtMostTwiceMaxCountPositive ==
    (limit.count >= 1 /\ limit.duration >= 1) => WithinTwiceMax

C9_Witness ==
    \E i \in Ids :
        /\ limit.count = 1 /\ limit.duration = 1
        /\ regs[i] = << 0, 1 >>
        /\ usages[i].count = 2

\* C10 as claimed: with max_count = 0 (and a window of positive length) a
\* limit_duration on a registered id never returns None.
C10_ZeroCountAlwaysLimited ==
    \A t \in callers :
        (limit.count = 0 /\ limit.duration > 0 /\ ret[t].id # ZeroId /\ ret[t].seen >= 1)
        => ret[t].res # None

\* C10 as amended: with max_count = 0 a limit_duration on a registered id
\* returns Some(window - elapsed) while less than the window has elapsed since
\* the last registration, and None from then on.
C10_ZeroCountLimitedInsideWindow ==
    \A t \in callers :
        (limit.count = 0 /\ ret[t].id # ZeroId /\ ret[t].seen >= 1 /\ ~ret[t].used)
        => LET e == now - usages[ret[t].id].time
           IN  ret[t].res = IF e < limit.duration THEN Some(limit.duration - e) ELSE None

C10_Witness ==
    \E t \in callers :
        /\ limit.count = 0 /\ ret[t].id # ZeroId /\ ret[t].seen >= 1 /\ ~ret[t].used
        /\ limit.duration = 2 /\ now - usages[ret[t].id].time = 2
        /\ ret[t].res = None

\* C11: a call with id 0, register or limit_duration, panics before it reaches
\* the table: the step returns no value, takes no lock, and changes no entry;
\* no entry for 0 ever exists and no call with id 0 is ever in progress.
C11_ZeroIdPanics ==
    [][ /\ ZeroId \notin DOMAIN usages'
        /\ \A t \in callers :
             /\ pc'[t] \notin {"idle", "panicked"} => arg'[t] # ZeroId
             /\ (pc[t] = "idle" /\ pc'[t] = "panicked")
                => /\ usages' = usages /\ regs' = regs
                   /\ wlock' = wlock /\ rlock' = rlock
                   /\ ret'[t] = NoVerdict ]_vars

C11_Witness ==
    \E t, u \in callers :
        /\ pc[t] = "panicked" /\ pc[u] = "r_time"
        /\ DOMAIN usages = Ids /\ usages[arg[u]].count = 2

\* C12: a register that finds the count at 65535 inside the window panics: its
\* step stores nothing, so the entry keeps its count and last_seen and no
\* other entry changes, and the entry's lock is released, so later calls on
\* the table go on.
C12_OverflowPanics ==
    [][ \A t \in callers :
          ( /\ pc[t] = "r_some" /\ pc'[t] # "r_some"
            /\ limit.duration > 0 /\ limit.count > 0
            /\ Overflows(usages[arg[t]], now) )
          => /\ pc'[t] = "panicked"
             /\ usages' = usages
             /\ wlock'[shard[arg[t]]] = NoThread ]_vars

\* C13: when a limit_duration on an id returns at a later instant than the
\* previous limit_duration on that id, and no register has written the id's
\* entry in between: if both return Some, the second duration is the first
\* minus the time between the two, hence strictly smaller; if the first
\* returned None, so does the second.
C13_RemainingDecreases ==
    [][ ( /\ asked.id # ZeroId /\ asked'.id = asked.id
          /\ asked'.at > asked.at )
        => /\ (asked.res # None /\ asked'.res # None)
              => /\ asked'.res[1] = asked.res[1] - (asked'.at - asked.at)
                 /\ asked'.res[1] < asked.res[1]
           /\ asked.res = None => asked'.res = None ]_vars

C13_Witness ==
    /\ asked.id # ZeroId /\ asked.res = Some(1) /\ asked.was = << Some(2) >>
    /\ usages[asked.id].count = 2

C13_WitnessNone ==
    /\ asked.id \in DOMAIN usages /\ asked.res = None /\ asked.was = << None >>
    /\ usages[asked.id].count >= limit.count /\ limit.duration > 0

\* C14: no step removes an id from the table, and the ids present are exactly
\* the ids in Ids (all non-zero) whose entry a register has written; the first
\* write of an entry is the insert that ends a register.
C14_TableNeverShrinks ==
    [][ /\ DOMAIN usages \subseteq DOMAIN usages'
        /\ DOMAIN usages' = {i \in Ids : regs'[i] # << >>}
        /\ \A t \in callers :
             (pc[t] \in InRegister /\ pc'[t] = "idle") => arg[t] \in DOMAIN usages' ]_vars

C14_Witness ==
    /\ DOMAIN usages = Ids /\ now = MaxTime
    /\ \A t \in Threads : pc[t] = "idle"
    /\ Len(regs[1]) = 1 /\ regs[1][1] = 0 /\ Len(regs[2]) = 2

\* the decision as the specification words it
ReferenceDecision(i) ==
    IF i \notin DOMAIN usages THEN None
    ELSE LET elapsed == now - usages[i].time
         IN  IF usages[i].count < limit.count \/ elapsed >= limit.duration
             THEN None
             ELSE Some(limit.duration - elapsed)

\* C15: what limit_duration(id) returned, while the table and the clock are
\* as the call found them, is the reference decision: None if id is absent,
\* or count < max_count, or elapsed >= window; otherwise Some(window -
\* elapsed), and that duration is strictly positive.
C15_MatchesReference ==
    \A t \in callers :
        (ret[t].id # ZeroId /\ ~ret[t].used)
        => /\ ret[t].res = ReferenceDecision(ret[t].id)
           /\ ret[t].res # None => ret[t].res[1] > 0

C15_Witness ==
    \E t \in callers :
        /\ ret[t].id = 1 /\ ~ret[t].used /\ ret[t].seen = U16Max
        /\ ret[t].res = Some(1) /\ limit.duration = 2 /\ limit.count = 2
        /\ 2 \in DOMAIN usages

\* the entry of id i after the first k register calls that wrote it, as the
\* three cases of the claim give it, starting from what the table held at first
RECURSIVE ExpectedUsage(_, _)
ExpectedUsage(i, k) ==
    IF k = 0 THEN initial[i]
    ELSE IF k = 1 /\ i \notin DOMAIN initial
         THEN [time |-> regs[i][k], count |-> 1]
         ELSE LET old == ExpectedUsage(i, k - 1)
              IN  [time |-> regs[i][k],
                   count |-> IF regs[i][k] - old.time > limit.duration
                             THEN 1 ELSE old.count + 1]

\* C16: with a single caller, after each register(id) has returned the entry
\* of id is what the three cases give: count 1 if id was absent, count 1 if
\* more than the window had elapsed, old count + 1 otherwise (elapsed equal to
\* the window included), and last_seen the instant of the call.
C16_RegisterCases ==
    \A i \in DOMAIN usages :
        ( /\ \A t \in callers : ~(pc[t] \in InRegister /\ arg[t] = i)
          /\ limit.duration > 0 /\ limit.count > 0 )
        => usages[i] = ExpectedUsage(i, Len(regs[i]))

\* C17: while a limit_duration holds its reference to the entry of an id, and
\* so at the step that takes its decision, no register is between its two
\* writes of that entry: the count and the last_seen it reads were stored by
\* the same register, the latest one to write the entry.
C17_SnapshotRead ==
    \A t \in callers :
        pc[t] = "l_ref"
        => /\ \A u \in callers : ~(pc[u] \in {"r_some", "r_time"} /\ arg[u] = arg[t])
           /\ usages[arg[t]].time = Last(regs[arg[t]])

C17_Witness ==
    \E t, u \in callers :
        /\ pc[t] = "l_ref" /\ arg[t] = 1
        /\ pc[u] = "r_insert" /\ arg[u] = 1
        /\ usages[1].count = 2 /\ usages[1].time = now /\ now > tnow[u]

\* the instants at which the entry of id i was written, the initial one included
Stamps(i) == << initial[i].time >> \o regs[i]

\* no two consecutive writes of the entry of id i lie more than the window apart
GapsWithinWindow(i) ==
    \A k \in 1..Len(regs[i]) : Stamps(i)[k + 1] - Stamps(i)[k] <= limit.duration

\* C18: for an id that was present before the first register call began, once
\* the k concurrent register calls made on it have all returned, with no gap
\* longer than the window, the stored count is the initial count plus k.
C18_PresentCountsEveryCall ==
    \A i \in DOMAIN initial :
        ( /\ \A t \in callers : ~(pc[t] \in InRegister /\ arg[t] = i)
          /\ limit.duration > 0 /\ limit.count > 0
          /\ Len(regs[i]) >= 2
          /\ GapsWithinWindow(i) )
        => usages[i].count = initial[i].count + Len(regs[i])

\* C19: no step replaces the last_seen of an entry by an earlier instant, and
\* the last_seen of an entry is never later than the clock.
C19_LastSeenNeverDecreases ==
    [][ \A i \in DOMAIN usages :
          /\ usages'[i].time >= usages[i].time
          /\ usages'[i].time <= now' ]_vars

\* the positions inside a call
InCall == InRegister \cup {"l_ref"}

\* C20: under fair scheduling every call in progress returns (or panics), the
\* register waiting to insert included; a lock is only ever held by a caller
\* in the middle of a call on that shard, so every lock taken is released.
C20_EveryCallReturns ==
    /\ \A t \in Threads : (pc[t] \in InCall) ~> (pc[t] \notin InCall)
    /\ [](\A t \in Threads, s \in Shards :
             /\ wlock[s] = t => pc[t] \in {"r_some", "r_time"} /\ shard[arg[t]] = s
             /\ t \in rlock[s] => pc[t] = "l_ref" /\ shard[arg[t]] = s)

C20_Witness ==
    \E t, u \in callers :
        /\ pc[t] = "r_insert" /\ arg[t] = 2
        /\ pc[u] = "r_time" /\ arg[u] = 1 /\ wlock[shard[2]] = u
        /\ 2 \notin DOMAIN usages
====
